---- MODULE Spec2Model ----
(***************************************************************************)
(* A model of system_maintenance_toolkit.py: the Tk application            *)
(* SystemMaintenanceToolkit, its three operations (start_health_check,     *)
(* disk_cleanup, defragment_drives) run on one worker thread per button    *)
(* press, the gui_queue drained by the UI thread, the progress bars and    *)
(* info panels, and the logging registry with its file handlers.           *)
(*                                                                         *)
(* Five specifications share the variables:                                *)
(*   Spec           one run of an operation, the gui_queue and the widgets;*)
(*   SpecLive       Spec with the UI loop ticking (fairness);              *)
(*   SpecLog        the log sink: clear_all_logs and clear_log_content     *)
(*                  step by step on the UI thread while worker threads     *)
(*                  write log records;                                     *)
(*   SpecReentrant  two runs of defragment_drives at once;                 *)
(*   SpecTick       Spec with queued calls that can raise.                 *)
(***************************************************************************)
EXTENDS Integers, Sequences, FiniteSets, Bags, TLC

(***************************************************************************)
(* Bounds of the model.                                                    *)
(***************************************************************************)
\* synthetic steps per drive: the source polls 100 times (line 393); the
\* model runs the same loop over a shorter range
steps == 2
\* filesystem entries one disk_cleanup walk meets
MaxEntries == 3
\* presses of "Clear Logs" in one behaviour of SpecLog
MaxClears == 2
\* log records the worker threads write in one behaviour of SpecLog
MaxLogWrites == 2

(***************************************************************************)
(* Program constants.                                                      *)
(***************************************************************************)
\* SECTION_LOG_FILES (lines 26-30): the section labels
SECTION_LOG_FILES ==
    <<"System Health Check", "Disk Cleanup", "Defragment and Optimize Drives">>

\* COMMAND_LOG_FILES (lines 33-40): the command names, in declared order
COMMAND_LOG_FILES ==
    <<"checkhealth", "scanhealth", "Restorehealth", "sfc_scannow",
      "AnalyzeComponentStore", "StartComponentCleanup">>

\* str.lower() followed by replace(' ', '_') or replace('/', '_') on the
\* names above (lines 136, 142, 248)
lower(s) ==
    CASE s = "System Health Check" -> "system_health_check"
      [] s = "Disk Cleanup" -> "disk_cleanup"
      [] s = "Defragment and Optimize Drives" -> "defragment_and_optimize_drives"
      [] s = "checkhealth" -> "checkhealth"
      [] s = "scanhealth" -> "scanhealth"
      [] s = "Restorehealth" -> "restorehealth"
      [] s = "sfc_scannow" -> "sfc_scannow"
      [] s = "AnalyzeComponentStore" -> "analyzecomponentstore"
      [] s = "StartComponentCleanup" -> "startcomponentcleanup"

\* the logger name initialize_loggers gives a section (lines 133-136)
section_logger_name(section) ==
    IF section = "Defragment and Optimize Drives" THEN "defragment"
    ELSE lower(section)

\* the keys of self.loggers, in the order initialize_loggers inserts them
\* (lines 129-147)
logger_names ==
    [i \in 1..Len(SECTION_LOG_FILES) |-> section_logger_name(SECTION_LOG_FILES[i])]
    \o [i \in 1..Len(COMMAND_LOG_FILES) |-> lower(COMMAND_LOG_FILES[i])]
    \o <<"error_logger">>

Range(f) == {f[i] : i \in DOMAIN f}

Channels == Range(logger_names)

\* the widgets create_section stores per section (lines 248-249), named by
\* the attribute prefix lower(label)
Sections == {lower(SECTION_LOG_FILES[i]) : i \in 1..Len(SECTION_LOG_FILES)}

\* the operations the three section buttons start (lines 121-123)
Ops == {"start_health_check", "disk_cleanup", "defragment_drives"}

\* the section whose button starts the operation (lines 121-123)
section_of(o) ==
    CASE o = "start_health_check" -> "system_health_check"
      [] o = "disk_cleanup" -> "disk_cleanup"
      [] o = "defragment_drives" -> "defragment_and_optimize_drives"

\* commands of start_health_check, in dict order (lines 562-569)
commands == COMMAND_LOG_FILES

\* the keys start_health_check looks up in self.loggers (lines 572-579)
health_logger_keys ==
    <<"checkhealth", "scanhealth", "restorehealth", "sfc_scannow",
      "analyzeComponentStore", "StartComponentCleanup">>

\* drives of defragment_drives (line 376)
drives == <<"C:", "D:">>

\* cleanup_paths of disk_cleanup (lines 454-459)
cleanup_paths == <<"TEMP", "Local_Temp", "History">>

\* "Assume 100 steps per drive": the share of the bar one drive gets
\* (lines 378, 398)
per_drive == 100

\* the value the operations give the bar at their end (lines 424, 551, 661)
final_value == 100

\* the maximum of a ttk.Progressbar created without one (lines 231-236)
default_maximum == 100

\* the threads: the Tk main loop and the workers the buttons start
UI == "ui"
ThreadNames == <<"t1", "t2">>
Threads == Range(ThreadNames)

(***************************************************************************)
(* Values.                                                                 *)
(***************************************************************************)
\* a message shown in a panel or written to a log: its kind, the object it
\* is about, a number (step, command index or tally) and, in the summary
\* of disk_cleanup, the three counts
Msg(kind, about, n) ==
    [kind |-> kind, about |-> about, n |-> n, counts |-> <<>>]

\* (func, args) as put on gui_queue (lines 189, 428, 555, 665); by and seq
\* record the producing thread and the position in the order of all puts
Event(func, target, msg, by, seq) ==
    [func |-> func, target |-> target, msg |-> msg, by |-> by, seq |-> seq]

\* a formatted log record; gen is the number of clear_all_logs calls begun
\* when it was written
Rec(level, msg, gen) == [level |-> level, msg |-> msg, gen |-> gen]

VARIABLES
    admin,          \* what IsUserAnAdmin does in this process (line 82)
    started,        \* number of worker threads started
    op,             \* op[t]: the operation thread t runs
    pc,             \* pc[t]: where thread t is in its operation
    gate,           \* gate[t]: what ensure_admin returned to t
    env,            \* env[t]: how the external commands of t's run behave
    idx,            \* idx[t]: loop index (drive, cleanup path)
    step,           \* step[t]: the defragment step counter
    proc,           \* proc[t]: the child process of t
    launched,       \* launched[t]: commands t has launched, in order
    tally,          \* tally[t]: the three lists of disk_cleanup, as lengths
    nput,           \* nput[t]: events t has put on gui_queue, counted to 2
    nlog,           \* nlog[t]: log records t has issued, counted to 2
    gui_queue,      \* self.gui_queue
    total_put,      \* events ever put on gui_queue
    applied,        \* events applied by process_gui_queue
    last_applied,   \* seq of the event applied last
    ui_pc,          \* where the UI thread is
    drain_mark,     \* total_put when the latest drain began
    panel,          \* panel[s]: whether the info panel of section s holds text
    progress,       \* progress[s]: value and maximum of the progress bar
    timers,         \* timers[s]: pending root.after resets of the bar of s
    widget_threads, \* threads that have mutated a widget directly
    handlers,       \* handlers[c]: the FileHandler attached to logger c
    leaked,         \* leaked[c]: detached handlers of c with an open stream
    file,           \* file[c]: the log file of channel c
    console,        \* records that went to stderr
    clears,         \* clear_all_logs calls begun
    log_i,          \* loop index of clear_all_logs
    listing,        \* the os.listdir result clear_all_logs iterates
    nwrites,        \* log records written by workers under SpecLog
    hist            \* hist[t]: what thread t has emitted, observed and reported

vars == <<admin, started, op, pc, gate, env, idx, step, proc, launched, tally,
          nput, nlog, gui_queue, total_put, applied, last_applied, ui_pc,
          drain_mark, panel, progress, timers, widget_threads, handlers,
          leaked, file, console, clears, log_i, listing, nwrites, hist>>

runVars == <<started, op, pc, gate, env, idx, step, proc, launched, tally>>
queueVars == <<gui_queue, total_put, applied, last_applied, drain_mark>>
widgetVars == <<panel, progress, timers, widget_threads>>
logVars == <<handlers, leaked, file, console>>
clearVars == <<clears, log_i, listing, nwrites>>

(***************************************************************************)
(* The logging registry.  A logger has level INFO and at most one          *)
(* FileHandler (get_logger, lines 59-72); the handler is "open", or        *)
(* "closed" while still attached (between lines 159 and 162), or there is  *)
(* "none".  Files are opened in append mode.                               *)
(***************************************************************************)
LogState == [handlers |-> handlers, leaked |-> leaked, file |-> file,
             console |-> console]

Append1(b, r) == b (+) SetToBag({r})

\* a record reaching stderr: through the root logger's StreamHandler once
\* logging.basicConfig has run, else through logging.lastResort (WARNING
\* and above) when no handler was found
ToConsole(L, r, found) ==
    IF L.console.configured \/ (~found /\ r.level \in {"WARNING", "ERROR"})
    THEN [L EXCEPT !.console.recs = Append1(@, r)]
    ELSE L

\* logger.<level>(msg) on the logger of channel c: Logger.callHandlers and
\* FileHandler.emit, which reopens a closed stream of an append-mode handler
Emit(L, c, level, msg) ==
    LET r == Rec(level, msg, clears) IN
    IF level = "DEBUG" THEN L
    ELSE IF L.handlers[c] = "none" THEN ToConsole(L, r, FALSE)
    ELSE ToConsole([L EXCEPT !.handlers[c] = "open",
                             !.file[c] = [exists |-> TRUE,
                                          recs |-> Append1(@.recs, r)]],
                   r, TRUE)

\* logging.error(msg) of the module (line 84): the root logger, configured
\* by basicConfig on first use
RootError(L, msg) ==
    [L EXCEPT !.console = [configured |-> TRUE,
                           recs |-> Append1(@.recs, Rec("ERROR", msg, clears))]]

SetLog(L) ==
    /\ handlers' = L.handlers
    /\ leaked' = L.leaked
    /\ file' = L.file
    /\ console' = L.console

\* get_logger (lines 59-72): a FileHandler is added, and the file opened
\* for appending, only when the logger has no handler
get_logger(L, c) ==
    IF L.handlers[c] = "none"
    THEN [L EXCEPT !.handlers[c] = "open",
                   !.file[c] = [@ EXCEPT !.exists = TRUE]]
    ELSE L

(***************************************************************************)
(* is_admin and ensure_admin.                                              *)
(***************************************************************************)
\* is_admin (lines 75-85): the value returned
is_admin == admin = "yes"

AdminRequired == Msg("Admin privileges are required", "", 0)

\* the log state after ensure_admin (lines 667-683; the definition at lines
\* 430-446 is replaced by this one when the class body ends)
ensure_admin_log(L) ==
    IF is_admin THEN L
    ELSE Emit(IF admin = "probe_fails"
              THEN RootError(L, Msg("Admin check failed", "", 0))
              ELSE L,
              "error_logger", "ERROR", AdminRequired)

\* the panel ensure_admin reports a denial to (lines 678-681)
ensure_admin_panel(o) == "system_health_check"

(***************************************************************************)
(* gui_queue.                                                              *)
(***************************************************************************)
\* queue.Queue() (line 102): maxsize 0, so put never waits for a free slot
maxsize == 0

put_blocks(q) == maxsize > 0 /\ Len(q) >= maxsize

UpTo2(n) == IF n > 2 THEN 2 ELSE n

\* gui_queue.put of the items <<func, target, msg>> in order, by thread t
Put(items, t) ==
    /\ ~put_blocks(gui_queue)
    /\ gui_queue' = gui_queue \o
          [i \in 1..Len(items) |->
              Event(items[i][1], items[i][2], items[i][3], t, total_put + i)]
    /\ total_put' = total_put + Len(items)
    /\ nput' = [nput EXCEPT ![t] = UpTo2(@ + Len(items))]

\* thread_safe_update_info_panel(panel, message) (lines 188-189)
Info(s, msg) == <<"update_info_panel", s, msg>>

\* the reset event (lines 428, 555, 665)
Reset(s) == <<"reset_progress_bar_with_delay", s, Msg("delay", "", 1000)>>

NoScenario == [kind |-> "none", k |-> 0]

\* how the commands of one health-check run behave: all exit 0, or command
\* k exits non-zero, or command k runs into the timeout
Scenarios ==
    {NoScenario} \cup
    {[kind |-> x, k |-> k] : x \in {"fail", "timeout"}, k \in 1..Len(commands)}

\* emitted: the step numbers put on gui_queue for the current drive;
\* seen_exit: poll() has returned a return code for the current drive;
\* results: per drive, the return code of the process, the level of the
\* report and the number of steps emitted; reported: the terminal messages
\* the run has put on gui_queue
NoHist == [emitted |-> <<>>, seen_exit |-> FALSE, results |-> <<>>, reported |-> <<>>]

NoTally == [deleted |-> 0, in_use |-> 0, permission_denied |-> 0, attempted |-> 0]

Init ==
    /\ admin \in {"yes", "no", "probe_fails"}
    /\ started = 0
    /\ op = [t \in Threads |-> "none"]
    /\ pc = [t \in Threads |-> "idle"]
    /\ gate = [t \in Threads |-> "none"]
    /\ env = [t \in Threads |-> NoScenario]
    /\ idx = [t \in Threads |-> 0]
    /\ step = [t \in Threads |-> 0]
    /\ proc = [t \in Threads |-> "none"]
    /\ launched = [t \in Threads |-> <<>>]
    /\ tally = [t \in Threads |-> NoTally]
    /\ nput = [t \in Threads |-> 0]
    /\ nlog = [t \in Threads |-> 0]
    /\ gui_queue = <<>>
    /\ total_put = 0
    /\ applied = 0
    /\ last_applied = 0
    /\ ui_pc = "idle"
    /\ drain_mark = 0
    /\ panel = [s \in Sections |-> ""]
    /\ progress = [s \in Sections |-> [value |-> 0, maximum |-> default_maximum]]
    /\ timers = [s \in Sections |-> 0]
    /\ widget_threads = {}
    /\ handlers = [c \in Channels |-> "open"]
    /\ leaked = [c \in Channels |-> 0]
    /\ file = [c \in Channels |->
                 [exists |-> TRUE,
                  recs |-> SetToBag({Rec("INFO", Msg("earlier session", "", 0), 0)})]]
    /\ console = [configured |-> FALSE, recs |-> EmptyBag]
    /\ clears = 0
    /\ log_i = 0
    /\ listing = <<>>
    /\ nwrites = 0
    /\ hist = [t \in Threads |-> NoHist]

(***************************************************************************)
(* The UI thread starts a worker per button press (line 214).              *)
(***************************************************************************)
entry_pc(o) ==
    CASE o = "start_health_check" -> "hc_gate"
      [] o = "disk_cleanup" -> "dc_gate"
      [] o = "defragment_drives" -> "df_start"

\* the first button press of a behaviour
Trigger(o) ==
    /\ ui_pc = "idle"
    /\ started = 0
    /\ LET t == ThreadNames[started + 1] IN
        /\ started' = started + 1
        /\ op' = [op EXCEPT ![t] = o]
        /\ pc' = [pc EXCEPT ![t] = entry_pc(o)]
        /\ \E e \in (IF o = "start_health_check" THEN Scenarios ELSE {NoScenario}) :
              env' = [env EXCEPT ![t] = e]
    /\ UNCHANGED <<admin, hist, gate, idx, step, proc, launched, tally, nput, nlog,
                   queueVars, ui_pc, widgetVars, logVars, clearVars>>

(***************************************************************************)
(* The privilege gate of start_health_check and disk_cleanup.              *)
(***************************************************************************)
\* the dictionary of lines 572-579 can be built: every key it looks up is a
\* key of self.loggers
health_loggers_found ==
    \A i \in DOMAIN health_logger_keys : health_logger_keys[i] \in Channels

\* lines 561-579 of start_health_check: a missing key raises KeyError, which
\* nothing catches, and the thread ends there; lines 581-665 run only when
\* every key is found
after_loggers == IF health_loggers_found THEN "hc_init" ELSE "crashed"

\* after_gate without the return of lines 451 and 559
after_gate_no_return(o, ok) ==
    IF o = "start_health_check" THEN after_loggers ELSE "dc_start"

\* where a thread goes after "if not self.ensure_admin(): return"
\* (lines 450-451, 558-559)
after_gate(o, ok) ==
    IF ~ok THEN "aborted"
    ELSE IF o = "start_health_check" THEN after_loggers ELSE "dc_start"

Gate(t) ==
    /\ pc[t] \in {"hc_gate", "dc_gate"}
    /\ IF is_admin
       THEN /\ UNCHANGED <<gui_queue, total_put, nput, nlog, logVars>>
       ELSE /\ Put(<<Info(ensure_admin_panel(op[t]), AdminRequired)>>, t)
            /\ SetLog(ensure_admin_log(LogState))
            /\ nlog' = [nlog EXCEPT ![t] = UpTo2(@ + 1)]
    /\ gate' = [gate EXCEPT ![t] = IF is_admin THEN "granted" ELSE "denied"]
    /\ pc' = [pc EXCEPT ![t] = after_gate(op[t], is_admin)]
    /\ hist' = [hist EXCEPT ![t].reported =
                    IF is_admin THEN @ ELSE Append(@, "denied")]
    /\ UNCHANGED <<admin, started, op, env, idx, step, proc, launched, tally,
                   applied, last_applied, drain_mark, ui_pc, widgetVars,
                   clearVars>>

(***************************************************************************)
(* Widgets touched from the calling thread.                                *)
(***************************************************************************)
\* clear_info_panel(panel) (lines 359-362), called by thread t
clear_info_panel(s, t) ==
    /\ panel' = [panel EXCEPT ![s] = ""]
    /\ widget_threads' = widget_threads \cup {t}

(***************************************************************************)
(* disk_cleanup after the gate.                                            *)
(***************************************************************************)
DiskStart(t) ==
    /\ pc[t] = "dc_start"
    /\ clear_info_panel("disk_cleanup", t)
    /\ Put(<<Info("disk_cleanup", Msg("Starting Disk Cleanup", "", 0))>>, t)
    /\ idx' = [idx EXCEPT ![t] = 1]
    /\ pc' = [pc EXCEPT ![t] = "dc_path"]
    /\ UNCHANGED <<admin, hist, started, op, gate, env, step, proc, launched, tally,
                   nlog, applied, last_applied, drain_mark, ui_pc, progress,
                   timers, logVars, clearVars>>

\* line 472 false: the path is None or does not exist (lines 528-533)
DiskPathMissing(t) ==
    /\ pc[t] = "dc_path"
    /\ idx[t] <= Len(cleanup_paths)
    /\ LET m == Msg("Path not found or invalid", "", 0) IN
        /\ Put(<<Info("disk_cleanup", m)>>, t)
        /\ SetLog(Emit(LogState, "disk_cleanup", "WARNING", m))
    /\ nlog' = [nlog EXCEPT ![t] = UpTo2(@ + 1)]
    /\ idx' = [idx EXCEPT ![t] = @ + 1]
    /\ UNCHANGED <<admin, hist, started, op, pc, gate, env, step, proc, launched,
                   tally, applied, last_applied, drain_mark, ui_pc, widgetVars,
                   clearVars>>

\* line 472 true: os.walk of the path begins (line 473)
DiskWalk(t) ==
    /\ pc[t] = "dc_path"
    /\ idx[t] <= Len(cleanup_paths)
    /\ pc' = [pc EXCEPT ![t] = "dc_walk"]
    /\ UNCHANGED <<admin, hist, started, op, gate, env, idx, step, proc, launched,
                   tally, nput, nlog, queueVars, ui_pc, widgetVars, logVars,
                   clearVars>>

\* what unlink or rmdir can do with an entry: succeed, raise PermissionError
\* with winerror 32, raise another PermissionError, raise another OSError
Outcomes == {"deleted", "in_use", "permission_denied", "os_error"}

\* tally_after without the test of winerror at line 481: every
\* PermissionError is counted as permission denied
tally_after_no_winerror(ta, outcome) ==
    LET a == [ta EXCEPT !.attempted = @ + 1] IN
    CASE outcome = "deleted" -> [a EXCEPT !.deleted = @ + 1]
      [] outcome \in {"in_use", "permission_denied"} ->
            [a EXCEPT !.permission_denied = @ + 1]
      [] outcome = "os_error" -> a

\* the list an outcome is appended to (lines 478, 482, 489; none at 495-500)
tally_after(ta, outcome) ==
    LET a == [ta EXCEPT !.attempted = @ + 1] IN
    CASE outcome = "deleted" -> [a EXCEPT !.deleted = @ + 1]
      [] outcome = "in_use" -> [a EXCEPT !.in_use = @ + 1]
      [] outcome = "permission_denied" -> [a EXCEPT !.permission_denied = @ + 1]
      [] outcome = "os_error" -> a

\* the level of the record an outcome is logged with (lines 479, 487, 494, 500)
outcome_level(outcome) ==
    CASE outcome = "deleted" -> "INFO"
      [] outcome = "in_use" -> "WARNING"
      [] outcome = "permission_denied" -> "ERROR"
      [] outcome = "os_error" -> "ERROR"

\* the events an outcome puts on gui_queue: none for a deleted entry
\* (lines 477-479), one otherwise
outcome_events(outcome, m) ==
    IF outcome = "deleted" THEN <<>> ELSE <<Info("disk_cleanup", m)>>

\* one file (lines 474-500) or directory (lines 501-527) of the walk
DiskEntry(t, outcome) ==
    /\ pc[t] = "dc_walk"
    /\ tally[t].attempted < MaxEntries
    /\ LET m == Msg(outcome, "", 0) IN
        /\ Put(outcome_events(outcome, m), t)
        /\ SetLog(Emit(LogState, "disk_cleanup", outcome_level(outcome), m))
    /\ tally' = [tally EXCEPT ![t] = tally_after(@, outcome)]
    /\ nlog' = [nlog EXCEPT ![t] = UpTo2(@ + 1)]
    /\ UNCHANGED <<admin, hist, started, op, pc, gate, env, idx, step, proc, launched,
                   applied, last_applied, drain_mark, ui_pc, widgetVars,
                   clearVars>>

\* os.walk is exhausted: the next path, or the end of the loop of line 471
DiskWalkEnd(t) ==
    /\ pc[t] = "dc_walk"
    /\ idx' = [idx EXCEPT ![t] = @ + 1]
    /\ pc' = [pc EXCEPT ![t] = "dc_path"]
    /\ UNCHANGED <<admin, hist, started, op, gate, env, step, proc, launched, tally,
                   nput, nlog, queueVars, ui_pc, widgetVars, logVars, clearVars>>

\* completion_message (lines 541-546)
completion_message(ta) ==
    [kind |-> "Disk cleanup completed", about |-> "", n |-> 0,
     counts |-> <<ta.deleted, ta.in_use, ta.permission_denied>>]

\* lines 535-555
DiskFinish(t) ==
    /\ pc[t] = "dc_path"
    /\ idx[t] > Len(cleanup_paths)
    /\ Put(<<Info("disk_cleanup", completion_message(tally[t])),
             Reset("disk_cleanup")>>, t)
    /\ LET L1 == Emit(LogState, "disk_cleanup", "INFO",
                      Msg("Disk Cleanup Completed", "", 0))
           L2 == Emit(L1, "disk_cleanup", "INFO",
                      Msg("Deleted Files", "", tally[t].deleted))
           L3 == Emit(L2, "disk_cleanup", "INFO",
                      Msg("In Use Files", "", tally[t].in_use))
           L4 == Emit(L3, "disk_cleanup", "INFO",
                      Msg("Permission Denied Files", "", tally[t].permission_denied))
       IN SetLog(L4)
    /\ nlog' = [nlog EXCEPT ![t] = UpTo2(@ + 4)]
    /\ progress' = [progress EXCEPT !["disk_cleanup"].value = final_value]
    /\ widget_threads' = widget_threads \cup {t}
    /\ pc' = [pc EXCEPT ![t] = "done"]
    /\ hist' = [hist EXCEPT ![t].reported = Append(@, "completed")]
    /\ UNCHANGED <<admin, started, op, gate, env, idx, step, proc, launched,
                   tally, applied, last_applied, drain_mark, ui_pc, panel,
                   timers, clearVars>>

(***************************************************************************)
(* defragment_drives.                                                      *)
(***************************************************************************)
DEFRAG == "defragment_and_optimize_drives"

\* lines 366-380; self.loggers['defragment'] is always found
DefragStart(t) ==
    /\ pc[t] = "df_start"
    /\ clear_info_panel(DEFRAG, t)
    /\ Put(<<Info(DEFRAG, Msg("Initialized Defragment and Optimize Drives", "", 0))>>, t)
    /\ progress' = [progress EXCEPT ![DEFRAG].maximum = Len(drives) * per_drive]
    /\ SetLog(Emit(LogState, "defragment", "INFO",
                   Msg("Starting Defragmentation and Optimization", "", 0)))
    /\ nlog' = [nlog EXCEPT ![t] = UpTo2(@ + 1)]
    /\ idx' = [idx EXCEPT ![t] = 0]
    /\ pc' = [pc EXCEPT ![t] = "df_popen"]
    /\ UNCHANGED <<admin, hist, started, op, gate, env, step, proc, launched, tally,
                   applied, last_applied, drain_mark, ui_pc, timers, clearVars>>

\* subprocess.Popen of "defrag <drive> /OPTIMIZE" (lines 384-393)
DefragPopen(t) ==
    /\ pc[t] = "df_popen"
    /\ proc' = [proc EXCEPT ![t] = "running"]
    /\ launched' = [launched EXCEPT ![t] = Append(@, drives[idx[t] + 1])]
    /\ step' = [step EXCEPT ![t] = 0]
    /\ pc' = [pc EXCEPT ![t] = "df_poll"]
    /\ hist' = [hist EXCEPT ![t].emitted = <<>>, ![t].seen_exit = FALSE]
    /\ UNCHANGED <<admin, started, op, gate, env, idx, tally, nput, nlog,
                   queueVars, ui_pc, widgetVars, logVars, clearVars>>

\* the child process ends with a return code, whenever it does
ProcExit(t, rc) ==
    /\ proc[t] = "running"
    /\ proc' = [proc EXCEPT ![t] = rc]
    /\ UNCHANGED <<admin, hist, started, op, pc, gate, env, idx, step, launched,
                   tally, nput, nlog, queueVars, ui_pc, widgetVars, logVars,
                   clearVars>>

\* proc.poll() is not None
exited(p) == p \in {"exit0", "exit1"}

\* after_poll without the test of poll() (lines 395-396)
after_poll_blind(st, p) ==
    IF st >= steps THEN "df_comm" ELSE "df_step"

\* where the loop of lines 394-396 goes: out at the end of range(steps) or
\* when poll() sees the process gone, else into the body
after_poll(st, p) ==
    IF st >= steps \/ exited(p) THEN "df_comm" ELSE "df_step"

DefragPoll(t) ==
    /\ pc[t] = "df_poll"
    /\ pc' = [pc EXCEPT ![t] = after_poll(step[t], proc[t])]
    /\ hist' = [hist EXCEPT ![t].seen_exit = step[t] < steps /\ exited(proc[t])]
    /\ UNCHANGED <<admin, started, op, gate, env, idx, step, proc, launched,
                   tally, nput, nlog, queueVars, ui_pc, widgetVars, logVars,
                   clearVars>>

\* the value line 398 gives the bar
step_value(i, st) == (i * per_drive) + (st + 1)

\* the body of the loop (lines 397-402)
DefragStep(t) ==
    /\ pc[t] = "df_step"
    /\ LET m == Msg("Defragmenting", drives[idx[t] + 1], step[t] + 1) IN
        /\ progress' = [progress EXCEPT ![DEFRAG].value = step_value(idx[t], step[t])]
        /\ widget_threads' = widget_threads \cup {t}
        /\ Put(<<Info(DEFRAG, m)>>, t)
        /\ SetLog(Emit(LogState, "defragment", "INFO", m))
    /\ nlog' = [nlog EXCEPT ![t] = UpTo2(@ + 1)]
    /\ step' = [step EXCEPT ![t] = @ + 1]
    /\ pc' = [pc EXCEPT ![t] = "df_poll"]
    /\ hist' = [hist EXCEPT ![t].emitted = Append(@, step[t] + 1)]
    /\ UNCHANGED <<admin, started, op, gate, env, idx, proc, launched, tally,
                   applied, last_applied, drain_mark, ui_pc, panel, timers,
                   clearVars>>

\* the message and level lines 404-411 choose from proc.returncode
drive_report(rc, drive) ==
    IF rc = "exit0"
    THEN [level |-> "INFO", msg |-> Msg("Optimized drive", drive, 0)]
    ELSE [level |-> "ERROR", msg |-> Msg("Failed to optimize drive", drive, 0)]

\* proc.communicate() returns once the process has ended (lines 403-411)
DefragCommunicate(t) ==
    /\ pc[t] = "df_comm"
    /\ exited(proc[t])
    /\ LET r == drive_report(proc[t], drives[idx[t] + 1]) IN
        /\ Put(<<Info(DEFRAG, r.msg)>>, t)
        /\ SetLog(Emit(LogState, "defragment", r.level, r.msg))
    /\ nlog' = [nlog EXCEPT ![t] = UpTo2(@ + 1)]
    /\ proc' = [proc EXCEPT ![t] = "none"]
    /\ idx' = [idx EXCEPT ![t] = @ + 1]
    /\ pc' = [pc EXCEPT ![t] =
                 IF idx[t] + 1 < Len(drives) THEN "df_popen" ELSE "df_finish"]
    /\ hist' = [hist EXCEPT ![t].results =
                    Append(@, [rc |-> proc[t],
                               level |-> drive_report(proc[t], drives[idx[t] + 1]).level,
                               emitted |-> Len(hist[t].emitted)])]
    /\ UNCHANGED <<admin, started, op, gate, env, step, launched, tally,
                   applied, last_applied, drain_mark, ui_pc, widgetVars,
                   clearVars>>

\* lines 417-428
DefragFinish(t) ==
    /\ pc[t] = "df_finish"
    /\ SetLog(Emit(LogState, "defragment", "INFO",
                   Msg("Defragmentation and Optimization Completed", "", 0)))
    /\ nlog' = [nlog EXCEPT ![t] = UpTo2(@ + 1)]
    /\ Put(<<Info(DEFRAG, Msg("Defragmentation and optimization completed", "", 0)),
             Reset(DEFRAG)>>, t)
    /\ progress' = [progress EXCEPT ![DEFRAG].value = final_value]
    /\ widget_threads' = widget_threads \cup {t}
    /\ pc' = [pc EXCEPT ![t] = "done"]
    /\ hist' = [hist EXCEPT ![t].reported = Append(@, "completed")]
    /\ UNCHANGED <<admin, started, op, gate, env, idx, step, proc, launched,
                   tally, applied, last_applied, drain_mark, ui_pc, panel,
                   timers, clearVars>>

(***************************************************************************)
(* The UI thread: process_gui_queue and the root.after callbacks.          *)
(***************************************************************************)
\* gui_queue.empty() (line 183)
empty(q) == q = <<>>

\* after_apply with an "if" for the "while" of line 183
after_apply_once == "idle"

\* where the loop goes after func(*args): back to its condition (line 183)
after_apply == "drain"

\* the tick scheduled by root.after(100, ...) fires (lines 103, 186)
DrainBegin ==
    /\ ui_pc = "idle"
    /\ ui_pc' = "drain"
    /\ drain_mark' = total_put
    /\ UNCHANGED <<admin, hist, runVars, nput, nlog, gui_queue, total_put, applied,
                   last_applied, widgetVars, logVars, clearVars>>

\* Apply without the root.after of line 205: a reset event schedules nothing
Apply_no_after(e) ==
    IF e.func = "update_info_panel"
    THEN /\ panel' = [panel EXCEPT ![e.target] = "text"]
         /\ widget_threads' = widget_threads \cup {UI}
         /\ UNCHANGED <<progress, timers>>
    ELSE UNCHANGED <<panel, progress, timers, widget_threads>>

\* func(*args) for the two functions ever queued: update_info_panel
\* (lines 191-195) and reset_progress_bar_with_delay (lines 197-205)
Apply(e) ==
    IF e.func = "update_info_panel"
    THEN /\ panel' = [panel EXCEPT ![e.target] = "text"]
         /\ widget_threads' = widget_threads \cup {UI}
         /\ UNCHANGED <<progress, timers>>
    ELSE /\ timers' = [timers EXCEPT ![e.target] = @ + 1]
         /\ UNCHANGED <<panel, progress, widget_threads>>

\* one turn of the loop (lines 183-185)
DrainGet ==
    /\ ui_pc = "drain"
    /\ ~empty(gui_queue)
    /\ LET e == Head(gui_queue) IN
        /\ gui_queue' = Tail(gui_queue)
        /\ Apply(e)
        /\ last_applied' = e.seq
    /\ applied' = applied + 1
    /\ ui_pc' = after_apply
    /\ UNCHANGED <<admin, hist, runVars, nput, nlog, total_put, drain_mark,
                   logVars, clearVars>>

\* the loop ends and the next tick is scheduled (line 186)
DrainYield ==
    /\ ui_pc = "drain"
    /\ empty(gui_queue)
    /\ ui_pc' = "idle"
    /\ UNCHANGED <<admin, hist, runVars, nput, nlog, gui_queue, total_put, applied,
                   last_applied, drain_mark, widgetVars, logVars, clearVars>>

\* the callback of line 205, a delay after reset_progress_bar_with_delay
ResetTimer(s) ==
    /\ ui_pc = "idle"
    /\ timers[s] > 0
    /\ timers' = [timers EXCEPT ![s] = @ - 1]
    /\ progress' = [progress EXCEPT ![s].value = 0]
    /\ widget_threads' = widget_threads \cup {UI}
    /\ UNCHANGED <<admin, hist, runVars, nput, nlog, queueVars, ui_pc, panel,
                   logVars, clearVars>>

Next ==
    \/ \E o \in Ops : Trigger(o)
    \/ \E t \in Threads : Gate(t)
    \/ \E t \in Threads : DiskStart(t)
    \/ \E t \in Threads : DiskPathMissing(t)
    \/ \E t \in Threads : DiskWalk(t)
    \/ \E t \in Threads, outcome \in Outcomes : DiskEntry(t, outcome)
    \/ \E t \in Threads : DiskWalkEnd(t)
    \/ \E t \in Threads : DiskFinish(t)
    \/ \E t \in Threads : DefragStart(t)
    \/ \E t \in Threads : DefragPopen(t)
    \/ \E t \in Threads, rc \in {"exit0", "exit1"} : ProcExit(t, rc)
    \/ \E t \in Threads : DefragPoll(t)
    \/ \E t \in Threads : DefragStep(t)
    \/ \E t \in Threads : DefragCommunicate(t)
    \/ \E t \in Threads : DefragFinish(t)
    \/ DrainBegin
    \/ DrainGet
    \/ DrainYield
    \/ \E s \in Sections : ResetTimer(s)

Spec == Init /\ [][Next]_vars

(***************************************************************************)
(* Properties.                                                             *)
(***************************************************************************)
Ended(t) == pc[t] \in {"done", "aborted", "crashed"}

IsPrefix(a, b) == Len(a) <= Len(b) /\ a = SubSeq(b, 1, Len(a))

InitialFile == [exists |-> TRUE,
                recs |-> SetToBag({Rec("INFO", Msg("earlier session", "", 0), 0)})]

InitialBar == [value |-> 0, maximum |-> default_maximum]

HasLevel(c, level) == \E r \in BagToSet(file[c].recs) : r.level = level

\* C1: a run of start_health_check or disk_cleanup that the privilege gate
\* denied is Aborted and has done nothing else than put the denial message
\* on gui_queue and write the record to error.log: it launched no command,
\* attempted no deletion, touched no widget, changed no progress bar and
\* wrote to no other log file.
C1_DeniedRunHasNoSideEffect ==
    \A t \in Threads :
        gate[t] = "denied" =>
            /\ op[t] \in {"start_health_check", "disk_cleanup"}
            /\ pc[t] = "aborted"
            /\ launched[t] = <<>>
            /\ proc[t] = "none"
            /\ tally[t] = NoTally
            /\ t \notin widget_threads
            /\ \A s \in Sections : progress[s] = InitialBar /\ timers[s] = 0
            /\ nput[t] = 1
            /\ hist[t].reported = <<"denied">>
            /\ nlog[t] = 1
            /\ \A c \in Channels \ {"error_logger"} : file[c] = InitialFile
            /\ BagCardinality(file["error_logger"].recs) = 2

\* a denied disk_cleanup whose message the UI thread has shown
C1_Witness ==
    \E t \in Threads :
        /\ op[t] = "disk_cleanup"
        /\ gate[t] = "denied"
        /\ pc[t] = "aborted"
        /\ applied = 1
        /\ HasLevel("error_logger", "ERROR")

\* C2: when the gate grants, a start_health_check run launches its six
\* commands in the declared order, one after the other: what it has
\* launched is a prefix of the command list, and it does not end before it
\* launched the first.
C2_GrantedHealthCheckLaunchesInOrder ==
    \A t \in Threads :
        op[t] = "start_health_check" /\ gate[t] = "granted" =>
            /\ IsPrefix(launched[t], commands)
            /\ Ended(t) => Len(launched[t]) >= 1

\* C3: a health-check run in which command k times out has executed exactly
\* the commands 1..k when it ends, and ends reporting the timeout.
C3_TimeoutStopsAfterStepK ==
    \A t \in Threads :
        /\ op[t] = "start_health_check"
        /\ gate[t] = "granted"
        /\ env[t].kind = "timeout"
        /\ Ended(t)
        => /\ launched[t] = SubSeq(commands, 1, env[t].k)
           /\ hist[t].reported = <<"timed_out">>

\* C4: a run in which one step exits non-zero and none times out executes
\* all its steps, ends Completed and leaves the failure in the log channel
\* of the failing step, for start_health_check and for defragment_drives.
C4_FailedStepDoesNotStopTheRun ==
    \A t \in Threads :
        /\ (/\ op[t] = "start_health_check"
            /\ gate[t] = "granted"
            /\ env[t].kind = "fail"
            /\ Ended(t)
            => /\ launched[t] = commands
               /\ hist[t].reported = <<"completed">>
               /\ lower(commands[env[t].k]) \in Channels
               /\ HasLevel(lower(commands[env[t].k]), "ERROR"))
        /\ (/\ op[t] = "defragment_drives"
            /\ Ended(t)
            /\ \E i \in DOMAIN hist[t].results : hist[t].results[i].rc = "exit1"
            => /\ launched[t] = drives
               /\ hist[t].reported = <<"completed">>
               /\ Len(hist[t].results) = Len(drives)
               /\ HasLevel("defragment", "ERROR"))

\* the part of C4 about defragment_drives alone
C4_DefragmentPart ==
    \A t \in Threads :
        /\ op[t] = "defragment_drives"
        /\ Ended(t)
        /\ \E i \in DOMAIN hist[t].results : hist[t].results[i].rc = "exit1"
        => /\ launched[t] = drives
           /\ hist[t].reported = <<"completed">>
           /\ Len(hist[t].results) = Len(drives)
           /\ HasLevel("defragment", "ERROR")

\* C5: every run that has ended has reported exactly one terminal state,
\* and it reported completion only when every step was attempted.
C5_OneTerminalStatePerRun ==
    \A t \in Threads :
        Ended(t) =>
            /\ Len(hist[t].reported) = 1
            /\ hist[t].reported = <<"completed">> =>
                  CASE op[t] = "start_health_check" -> launched[t] = commands
                    [] op[t] = "defragment_drives" -> launched[t] = drives
                    [] op[t] = "disk_cleanup" -> idx[t] > Len(cleanup_paths)

\* C6: only the UI thread mutates a widget.
C6_OnlyTheUIThreadTouchesWidgets == widget_threads \subseteq {UI}

ResetQueued(t) ==
    \E i \in 1..Len(gui_queue) :
        gui_queue[i].by = t /\ gui_queue[i].func = "reset_progress_bar_with_delay"

C8_BarFullExactlyAtTheEnd ==
    \A t \in Threads :
        op[t] # "none" =>
            LET bar == progress[section_of(op[t])] IN
            /\ bar.value <= bar.maximum
            /\ ~Ended(t) => bar.value < bar.maximum
            /\ ResetQueued(t) => bar.value = bar.maximum

\* C9: in defragment_drives the steps emitted for a drive are 1, 2, ... up
\* to at most `steps`; the loop body is not entered once poll() has seen the
\* process gone; the report of a drive is "Optimized" exactly when the
\* return code of the process that ended is 0.
C9_SyntheticStepsAndTrueStatus ==
    \A t \in Threads :
        op[t] = "defragment_drives" =>
            /\ Len(hist[t].emitted) <= steps
            /\ \A i \in DOMAIN hist[t].emitted : hist[t].emitted[i] = i
            /\ hist[t].seen_exit => pc[t] # "df_step" /\ Len(hist[t].emitted) = step[t]
            /\ pc[t] = "df_step" => proc[t] # "none"
            /\ \A i \in DOMAIN hist[t].results :
                  LET r == hist[t].results[i] IN
                  /\ exited(r.rc)
                  /\ r.level = "INFO" <=> r.rc = "exit0"
                  /\ r.emitted <= steps

\* one drive failed before the last step was emitted and the other was
\* still running when the last step had been emitted
C9_Witness ==
    \E t \in Threads :
        /\ Len(hist[t].results) = Len(drives)
        /\ hist[t].results[1].rc = "exit1"
        /\ hist[t].results[1].level = "ERROR"
        /\ hist[t].results[1].emitted < steps
        /\ hist[t].results[2].rc = "exit0"
        /\ hist[t].results[2].emitted = steps

(***************************************************************************)
(* The log sink under "Clear Logs": clear_all_logs runs on the UI thread   *)
(* (line 112) statement by statement while worker threads go on logging.   *)
(* Files follow the rules of Windows, the platform of the commands the     *)
(* program runs: a file with an open handle cannot be removed.             *)
(***************************************************************************)
logUnchanged ==
    UNCHANGED <<admin, hist, runVars, nput, nlog, queueVars, widgetVars>>

\* "Clear Logs" is pressed (line 112)
ClearBegin ==
    /\ ui_pc = "idle"
    /\ clears < MaxClears
    /\ clears' = clears + 1
    /\ ui_pc' = "cl_close"
    /\ log_i' = 1
    /\ UNCHANGED <<logVars, listing, nwrites>>
    /\ logUnchanged

\* handler.close() on the FileHandler of the logger (lines 157-160)
ClearClose ==
    /\ ui_pc = "cl_close"
    /\ LET c == logger_names[log_i] IN
        handlers' = [handlers EXCEPT ![c] = IF @ = "open" THEN "closed" ELSE @]
    /\ ui_pc' = "cl_remove"
    /\ UNCHANGED <<leaked, file, console, clears, log_i, listing, nwrites>>
    /\ logUnchanged

\* the locals handler and handlers_to_remove of clear_all_logs keep the
\* handler of the logger visited last referenced until the function returns;
\* the handler of any other logger is finalized, and its stream closed, when
\* the loop of line 155 rebinds them
held_by_locals(c) == c = logger_names[Len(logger_names)]

\* logger.removeHandler(handler) (lines 161-163); a handler whose stream a
\* record reopened since line 159 is detached with the stream open; the
\* debug record of line 163 is below the level of error_logger
ClearRemove ==
    /\ ui_pc = "cl_remove"
    /\ LET c == logger_names[log_i] IN
        /\ handlers' = [handlers EXCEPT ![c] = "none"]
        /\ leaked' = [leaked EXCEPT ![c] =
                          IF handlers[c] = "open" /\ held_by_locals(c)
                          THEN @ + 1 ELSE @]
    /\ log_i' = IF log_i < Len(logger_names) THEN log_i + 1 ELSE 1
    /\ ui_pc' = IF log_i < Len(logger_names) THEN "cl_close" ELSE "cl_list"
    /\ UNCHANGED <<file, console, clears, listing, nwrites>>
    /\ logUnchanged

\* os.listdir(LOG_DIR) (line 166)
ClearList ==
    /\ ui_pc = "cl_list"
    /\ listing' = SelectSeq(logger_names, LAMBDA c : file[c].exists)
    /\ log_i' = 1
    /\ ui_pc' = "cl_delete"
    /\ UNCHANGED <<logVars, clears, nwrites>>
    /\ logUnchanged

\* handles open on the file of channel c
open_handles(L, c) == (IF L.handlers[c] = "open" THEN 1 ELSE 0) + L.leaked[c]

\* os.remove(file_path) and the record that follows (lines 168-174)
remove_log(L, c) ==
    IF ~L.file[c].exists THEN L
    ELSE IF open_handles(L, c) > 0
    THEN Emit(L, "error_logger", "ERROR", Msg("Error clearing log file", c, 0))
    ELSE Emit([L EXCEPT !.file[c] = [exists |-> FALSE, recs |-> EmptyBag]],
              "error_logger", "INFO", Msg("Cleared log file", c, 0))

ClearDelete ==
    /\ ui_pc = "cl_delete"
    /\ IF log_i <= Len(listing)
       THEN /\ SetLog(remove_log(LogState, listing[log_i]))
            /\ log_i' = log_i + 1
            /\ ui_pc' = "cl_delete"
       ELSE /\ UNCHANGED logVars
            /\ log_i' = 1
            /\ ui_pc' = "cl_init"
    /\ UNCHANGED <<clears, listing, nwrites>>
    /\ logUnchanged

\* one get_logger call of initialize_loggers (lines 129-148), called at
\* line 177
ClearInit ==
    /\ ui_pc = "cl_init"
    /\ SetLog(get_logger(LogState, logger_names[log_i]))
    /\ log_i' = IF log_i < Len(logger_names) THEN log_i + 1 ELSE 0
    /\ ui_pc' = IF log_i < Len(logger_names) THEN "cl_init" ELSE "cl_dialog"
    /\ UNCHANGED <<clears, listing, nwrites>>
    /\ logUnchanged

\* the dialog of line 180 is dismissed and clear_all_logs returns: its
\* locals are released and a handler they kept alive is finalized
ClearDone ==
    /\ ui_pc = "cl_dialog"
    /\ ui_pc' = "idle"
    /\ listing' = <<>>
    /\ leaked' = [c \in Channels |-> 0]
    /\ UNCHANGED <<handlers, file, console, clears, log_i, nwrites>>
    /\ logUnchanged

\* the file get_logger is given for each logger (lines 137, 143, 147): the
\* values of SECTION_LOG_FILES and COMMAND_LOG_FILES (lines 26-40) and
\* 'error.log'
log_file(c) ==
    CASE c = "system_health_check" -> "system_health_check.log"
      [] c = "disk_cleanup" -> "disk_cleanup.log"
      [] c = "defragment" -> "defragment.log"
      [] c = "checkhealth" -> "checkhealth.log"
      [] c = "scanhealth" -> "scanhealth.log"
      [] c = "restorehealth" -> "Restorehealth.log"
      [] c = "sfc_scannow" -> "sfc_scannow.log"
      [] c = "analyzecomponentstore" -> "AnalyzeComponentStore.log"
      [] c = "startcomponentcleanup" -> "StartComponentCleanup.log"
      [] c = "error_logger" -> "error.log"

\* the sections whose log window has a "Clear Log" button: open_log builds
\* it in the branch of the sections other than System Health Check
\* (lines 301-333); the value is the position of the section's logger in
\* logger_names
clearable == {i \in 1..Len(SECTION_LOG_FILES) :
                 SECTION_LOG_FILES[i] # "System Health Check"}

\* clear_log_content up to the body of the with statement (lines 340-352):
\* open(log_file_path, 'w') truncates the file, whatever handler the logger
\* of the section holds
ClearContentOpen(i) ==
    /\ ui_pc = "idle"
    /\ i \in clearable
    /\ file[logger_names[i]].exists
    /\ file' = [file EXCEPT ![logger_names[i]].recs = EmptyBag]
    /\ log_i' = i
    /\ ui_pc' = "cc_write"
    /\ UNCHANGED <<handlers, leaked, console, clears, listing, nwrites>>
    /\ logUnchanged

\* the with statement closes the file and the dialog of line 353 is
\* dismissed
ClearContentClose ==
    /\ ui_pc = "cc_write"
    /\ log_i' = 0
    /\ ui_pc' = "idle"
    /\ UNCHANGED <<logVars, clears, listing, nwrites>>
    /\ logUnchanged

\* the handle clear_log_content holds on the file of channel c inside its
\* with statement (lines 351-352)
truncating(c) == ui_pc = "cc_write" /\ logger_names[log_i] = c

\* handles open for writing on the file of channel c
writer_handles(c) == open_handles(LogState, c) + (IF truncating(c) THEN 1 ELSE 0)

\* the loggers and levels the worker threads write with: defragment_drives
\* (lines 380, 401, 407, 411, 418), disk_cleanup (lines 479-539) and
\* ensure_admin (line 673)
worker_records ==
    {<<"defragment", "INFO">>, <<"defragment", "ERROR">>,
     <<"disk_cleanup", "INFO">>, <<"error_logger", "ERROR">>}

\* a worker thread logs a record, whatever the UI thread is doing
WorkerLog(c, level) ==
    /\ nwrites < MaxLogWrites
    /\ <<c, level>> \in worker_records
    /\ nwrites' = nwrites + 1
    /\ SetLog(Emit(LogState, c, level, Msg("worker record", "", 0)))
    /\ UNCHANGED <<ui_pc, clears, log_i, listing>>
    /\ logUnchanged

NextLog ==
    \/ ClearBegin
    \/ ClearClose
    \/ ClearRemove
    \/ ClearList
    \/ ClearDelete
    \/ ClearInit
    \/ ClearDone
    \/ \E i \in clearable : ClearContentOpen(i)
    \/ ClearContentClose
    \/ \E c \in Channels, level \in {"INFO", "ERROR"} : WorkerLog(c, level)

SpecLog == Init /\ [][NextLog]_vars

\* C10: once clear_all_logs has returned, every channel has its handler
\* attached and open, so that the next record is written to its file, and
\* the file holds only records written since that clear began.
C10_ClearThenWriteLeavesNoResidue ==
    ui_pc = "idle" /\ clears > 0 =>
        \A c \in Channels :
            /\ handlers[c] = "open"
            /\ file[c].exists
            /\ \A r \in BagToSet(file[c].recs) : r.gen = clears

\* C11: in every state each channel has at most one handle open for writing
\* on its file, and two channels never write to the same file.
C11_OneWriterHandlePerChannel ==
    /\ \A c \in Channels : writer_handles(c) <= 1
    /\ \A c, d \in Channels : log_file(c) = log_file(d) => c = d

\* C12: whenever a step truncates or deletes the file of a channel, no
\* writer handle of that channel is open on it.
C12_HandleClosedBeforeTruncateOrDelete ==
    [][\A c \in Channels :
          file[c].exists /\ file'[c] # file[c] /\ file'[c].recs = EmptyBag
              => open_handles(LogState, c) = 0]_vars

\* the entry lines of an outcome in disk_cleanup.log
entry_lines(o) ==
    CopiesIn(Rec(outcome_level(o), Msg(o, "", 0), clears), file["disk_cleanup"].recs)

\* C13: in a disk_cleanup run each of the three tallies equals the number
\* of entries that met its outcome, every entry processed has its own line
\* in disk_cleanup.log, and the summary, on gui_queue and in the log,
\* carries the three tallies.
C13_TalliesMatchOutcomes ==
    \A t \in Threads :
        op[t] = "disk_cleanup" /\ gate[t] = "granted" =>
            LET ta == tally[t] IN
            /\ entry_lines("deleted") = ta.deleted
            /\ entry_lines("in_use") = ta.in_use
            /\ entry_lines("permission_denied") = ta.permission_denied
            /\ entry_lines("deleted") + entry_lines("in_use")
                 + entry_lines("permission_denied") + entry_lines("os_error")
                 = ta.attempted
            /\ \A i \in 1..Len(gui_queue) :
                  gui_queue[i].msg.kind = "Disk cleanup completed" =>
                      gui_queue[i].msg.counts =
                          <<ta.deleted, ta.in_use, ta.permission_denied>>
            /\ pc[t] = "done" =>
                  /\ BagIn(Rec("INFO", Msg("Deleted Files", "", ta.deleted), clears),
                           file["disk_cleanup"].recs)
                  /\ BagIn(Rec("INFO", Msg("In Use Files", "", ta.in_use), clears),
                           file["disk_cleanup"].recs)
                  /\ BagIn(Rec("INFO", Msg("Permission Denied Files", "",
                                           ta.permission_denied), clears),
                           file["disk_cleanup"].recs)

\* a run that met one entry of each tallied outcome has queued its summary
C13_Witness ==
    \E t \in Threads :
        /\ pc[t] = "done"
        /\ tally[t] = [deleted |-> 1, in_use |-> 1, permission_denied |-> 1,
                       attempted |-> 3]
        /\ \E i \in 1..Len(gui_queue) :
              /\ gui_queue[i].msg.kind = "Disk cleanup completed"
              /\ gui_queue[i].msg.counts = <<1, 1, 1>>

\* C14: no outcome is silent: a step in which a disk_cleanup run processes
\* an entry, and a step in which a run ends, both puts an event on
\* gui_queue and writes a record to a log file.
C14_EveryOutcomeLoggedAndSurfaced ==
    [][\A t \in Threads :
          \/ tally'[t].attempted > tally[t].attempted
          \/ (Ended(t))' /\ ~Ended(t)
          => /\ total_put' > total_put
             /\ \E c \in Channels : file'[c] # file[c]]_vars

\* the part of C14 that holds: every entry is logged, and every entry that
\* was not deleted is surfaced as well
C14_EntriesLogged ==
    [][\A t \in Threads :
          tally'[t].attempted > tally[t].attempted
          => /\ file'["disk_cleanup"] # file["disk_cleanup"]
             /\ tally'[t].deleted = tally[t].deleted => total_put' > total_put]_vars

\* C15: every record a worker thread writes, whatever the UI thread is
\* doing, is added to a log file.
C15_WorkerRecordsAreDurable ==
    [][nwrites' > nwrites => \E c \in Channels : file'[c] # file[c]]_vars

\* the part of C15 that holds: outside clear_all_logs no record is lost
C15_DurableWhileNotClearing ==
    [][nwrites' > nwrites /\ ui_pc \in {"idle", "cc_write"}
          => \E c \in Channels : file'[c] # file[c]]_vars

\* the record is_admin issues when the probe raises (line 84)
probe_failure_in(recs) == \E r \in BagToSet(recs) : r.msg.kind = "Admin check failed"

\* C16: when the probe raises, the gate denies without the thread crashing
\* and the probe failure is a record of error.log.
C16_ProbeFailureInErrorChannel ==
    \A t \in Threads :
        admin = "probe_fails" /\ gate[t] # "none" =>
            /\ gate[t] = "denied"
            /\ pc[t] = "aborted"
            /\ probe_failure_in(file["error_logger"].recs)

\* the part of C16 that holds: the probe failure denies the gate, and its
\* record goes to stderr
C16_ProbeFailureDenies ==
    \A t \in Threads :
        admin = "probe_fails" /\ gate[t] # "none" =>
            /\ gate[t] = "denied"
            /\ pc[t] = "aborted"
            /\ probe_failure_in(console.recs)

\* C17: while clear_all_logs lists and deletes the log files the
\* error_logger still has its handler on error.log, so that the records it
\* issues in that phase reach the error channel.
C17_ErrorLoggerAttachedWhileDeleting ==
    ui_pc \in {"cl_list", "cl_delete"} => handlers["error_logger"] # "none"

\* the part of C17 that holds: a failing os.remove does not stop
\* clear_all_logs, which goes on to reinitialize the loggers and return
C17_FailureDoesNotStopTheClear ==
    ui_pc = "cl_dialog" =>
        \A c \in Channels : handlers[c] = "open" /\ file[c].exists

(***************************************************************************)
(* The UI loop keeps ticking: mainloop (line 688) runs process_gui_queue   *)
(* every 100 ms (lines 103, 186), runs it to its end, and runs a due       *)
(* root.after callback whenever it is between two callbacks.               *)
(***************************************************************************)
\* one step of process_gui_queue (lines 182-186)
Tick == DrainBegin \/ DrainGet \/ DrainYield

\* a due callback of root.after(delay, ...) runs (line 205)
Timeout == \E s \in Sections : ResetTimer(s)

SpecLive ==
    /\ Init
    /\ [][Next]_vars
    /\ WF_vars(Tick)
    /\ SF_vars(Timeout)

\* the value of the bar of the operation thread t runs
bar_value(t) == IF op[t] = "none" THEN 0 ELSE progress[section_of(op[t])].value

UIHandlerLog ==
    \/ ClearBegin \/ ClearClose \/ ClearRemove \/ ClearList \/ ClearDelete
    \/ ClearInit \/ ClearDone
    \/ \E i \in clearable : ClearContentOpen(i)
    \/ ClearContentClose

\* the handlers the UI thread runs under Spec: the button command of line
\* 214, process_gui_queue and the root.after callback
UIHandlerRun ==
    \/ \E o \in Ops : Trigger(o)
    \/ Tick
    \/ Timeout

\* C19: no step of a handler running on the UI thread lists a directory
\* or deletes a file.
C19_UIThreadNeverBlocks ==
    [][UIHandlerLog =>
          /\ \A c \in Channels : file[c].exists => file'[c].exists
          /\ listing' \in {listing, <<>>}]_vars

\* the part of C19 that holds: starting a run, draining the queue and
\* resetting a bar launch no process and delete no entry; the operations
\* do that on their worker threads
C19_RunsBlockOnlyOnWorkers ==
    [][UIHandlerRun => UNCHANGED <<launched, proc, tally>>]_vars

(***************************************************************************)
(* Re-entrant runs: the button of a section is pressed again while the     *)
(* run it started is going on.  The operation followed is                  *)
(* defragment_drives, the one that needs no privilege, while the defrag    *)
(* processes of both runs are still running.                               *)
(***************************************************************************)
Running(t) == pc[t] \notin {"idle", "done", "aborted", "crashed"}

\* accepts with a check that no run of the operation is going on
accepts_unless_running(o) == \A t \in Threads : op[t] = o => ~Running(t)

\* the condition under which the button command starts a thread: the lambda
\* of line 214 has none, and the button is never disabled
accepts(o) == TRUE

\* a later press of the button of operation o (line 214): one more thread
Retrigger(o) ==
    /\ ui_pc = "idle"
    /\ started \in 1..(Len(ThreadNames) - 1)
    /\ accepts(o)
    /\ LET t == ThreadNames[started + 1] IN
        /\ started' = started + 1
        /\ op' = [op EXCEPT ![t] = o]
        /\ pc' = [pc EXCEPT ![t] = entry_pc(o)]
        /\ env' = [env EXCEPT ![t] = NoScenario]
    /\ UNCHANGED <<admin, hist, gate, idx, step, proc, launched, tally, nput, nlog,
                   queueVars, ui_pc, widgetVars, logVars, clearVars>>

\* the steps up to proc.communicate() (line 403) of the first drive, where a
\* run waits as long as its defrag process is running
NextReentrant ==
    \/ Trigger("defragment_drives")
    \/ Retrigger("defragment_drives")
    \/ \E t \in Threads : DefragStart(t)
    \/ \E t \in Threads : DefragPopen(t)
    \/ \E t \in Threads : DefragPoll(t)
    \/ \E t \in Threads : DefragStep(t)
    \/ Tick

SpecReentrant == Init /\ [][NextReentrant]_vars

\* C20: nothing rejects a re-entrant run: whenever the UI thread is idle
\* and a run was started before, in progress or not, pressing the button
\* again starts another thread.
C20_NothingRejectsAReentrantRun ==
    ui_pc = "idle" /\ started \in 1..(Len(ThreadNames) - 1)
        => ENABLED Retrigger("defragment_drives")

\* two runs of defragment_drives are in their step loops at once, both have
\* set the bar and logged steps, and their events are interleaved on
\* gui_queue
C20_Witness ==
    /\ \A t \in Threads :
          /\ op[t] = "defragment_drives"
          /\ pc[t] \in {"df_poll", "df_step"}
          /\ hist[t].emitted # <<>>
          /\ t \in widget_threads
    /\ \E i, j, k \in 1..Len(gui_queue) :
          /\ i < j /\ j < k
          /\ gui_queue[i].by = gui_queue[k].by
          /\ gui_queue[j].by # gui_queue[i].by
    /\ BagCardinality(file["defragment"].recs) >= 5

\* C21: no worker thread ends without having reported a terminal outcome:
\* a thread that has ended has put its terminal event (completion, timeout
\* or error, or the denial) on gui_queue.
C21_EveryRunReportsBeforeItEnds ==
    \A t \in Threads :
        Ended(t) => hist[t].reported # <<>> /\ nput[t] >= 1

\* the part of C21 that holds: a run of disk_cleanup or defragment_drives,
\* and a denied run, has reported when it has ended
C21_OtherRunsReport ==
    \A t \in Threads :
        Ended(t) /\ pc[t] # "crashed" => hist[t].reported # <<>> /\ nput[t] >= 1

(***************************************************************************)
(* process_gui_queue when the call of line 185 raises.  update_info_panel  *)
(* makes four Tk calls (lines 192-195), each of which raises               *)
(* tkinter.TclError when Tk rejects it.  Nothing in process_gui_queue      *)
(* catches an exception, so it leaves the function before line 186.        *)
(***************************************************************************)
\* func(*args) raises (line 185): the event was taken off the queue by
\* line 184, the exception ends process_gui_queue and root.after of line
\* 186 is not reached
DrainRaise ==
    /\ ui_pc = "drain"
    /\ ~empty(gui_queue)
    /\ gui_queue' = Tail(gui_queue)
    /\ ui_pc' = "unarmed"
    /\ UNCHANGED <<admin, hist, runVars, nput, nlog, total_put, applied,
                   last_applied, drain_mark, widgetVars, logVars, clearVars>>

NextTick == Next \/ DrainRaise

SpecTick == Init /\ [][NextTick]_vars

\* C22: the drain tick is always re-armed: at any time process_gui_queue
\* is either running or scheduled to run, so that no event put on
\* gui_queue is left unapplied for ever.
C22_TickAlwaysRearmed == ui_pc \in {"idle", "drain"}

\* the part of C22 that holds: when no application fails and the UI loop
\* keeps ticking, every event put is eventually applied, whatever the
\* producers put during a drain
C22_EveryEventAppliedUnlessItRaises ==
    (applied < total_put) ~> (applied = total_put)

\* the events of thread t still on gui_queue target only section s
targets_only(t, s) ==
    \A i \in 1..Len(gui_queue) : gui_queue[i].by = t => gui_queue[i].target = s

\* C23: a run changes only the info panel and the progress bar of its own
\* operation: its events target the section of its operation, and the
\* panels and bars of the other sections are as they were created.
C23_RunTouchesOnlyItsOwnSection ==
    \A t \in Threads :
        op[t] # "none" =>
            /\ targets_only(t, section_of(op[t]))
            /\ \A s \in Sections \ {section_of(op[t])} :
                  panel[s] = "" /\ progress[s] = InitialBar /\ timers[s] = 0

\* the part of C23 that holds: a run that the gate granted, and a run of
\* defragment_drives, touches only its own section
C23_GrantedRunTouchesOnlyItsOwnSection ==
    \A t \in Threads :
        op[t] # "none" /\ gate[t] # "denied" =>
            /\ targets_only(t, section_of(op[t]))
            /\ \A s \in Sections \ {section_of(op[t])} :
                  panel[s] = "" /\ progress[s] = InitialBar /\ timers[s] = 0

\* C24: when a disk_cleanup run has ended, its three tallies add up to the
\* number of entries it attempted to delete.
C24_TalliesAddUpToAttempts ==
    \A t \in Threads :
        op[t] = "disk_cleanup" /\ pc[t] = "done" =>
            tally[t].deleted + tally[t].in_use + tally[t].permission_denied
                = tally[t].attempted

\* the part of C24 that holds: an attempted entry increments at most one
\* tally, and the entries in no tally are those whose deletion raised an
\* OSError other than PermissionError
C24_UntalliedAreOtherErrors ==
    \A t \in Threads :
        op[t] = "disk_cleanup" /\ gate[t] = "granted" =>
            tally[t].deleted + tally[t].in_use + tally[t].permission_denied
                + entry_lines("os_error") = tally[t].attempted

====
